---------------------------- MODULE Spec2Model ----------------------------
(***************************************************************************)
(* The daily/yearly partition store of dukascopy-1s and the scripts that   *)
(* write it: daily_ingest.py (forward gap fill), backfill_missing.py (head *)
(* of history), yearly_consolidation.py and                                *)
(* historical_consolidation_script.py (daily -> yearly roll-up).           *)
(*                                                                         *)
(* One instrument is modelled.  Calendar dates are 1..MaxDate, grouped in  *)
(* years of YearLen days; a timestamp is a minute index, SlotsPerDay       *)
(* minutes to a day.  The OHLC columns are handled by the code exactly as  *)
(* volume is (a float64 cast), so a row carries volume only.               *)
(***************************************************************************)
EXTENDS Integers, Sequences, FiniteSets, TLC

MaxDate == 4

YearLen == 3

SlotsPerDay == 2

\* symbols.yaml: the instrument's earliest_date (the history floor).
EarliestDate == 2

\* symbols.yaml: the instrument's key and its provider id.
SymbolKey == "ES"

Dates == 1..MaxDate

YearOf(d) == ((d - 1) \div YearLen) + 1

Years == 1..YearOf(MaxDate)

\* The calendar date of a timestamp (latest_ts.date()).
DateOfTs(ts) == (ts \div SlotsPerDay) + 1

\* The first minute of date d.
TsOf(d, slot) == (d - 1) * SlotsPerDay + slot

Max(S) == CHOOSE x \in S : \A y \in S : y <= x

Min(S) == CHOOSE x \in S : \A y \in S : x <= y

Range(s) == {s[i] : i \in DOMAIN s}

(***************************************************************************)
(* Files.  A path either does not exist (NoFile) or holds a file; a        *)
(* parquet file whose write was interrupted is Truncated: it exists, and   *)
(* every read of it raises.                                                *)
(***************************************************************************)
NoFile == [kind |-> "NoFile", rows |-> <<>>]

Truncated == [kind |-> "Truncated", rows |-> <<>>]

\* A CSV of size 0.
ZeroSize == [kind |-> "ZeroSize", rows |-> <<>>]

Parquet(rows) == [kind |-> "parquet", rows |-> rows]

Csv(table) == [kind |-> "csv", rows |-> table]

\* Path.exists()
Exists(f) == f.kind # "NoFile"

\* What a step reports: the operation, its date or year, its outcome, whether
\* the fetch tool was run, and the record count printed (-1: none).
Log(op, key, outcome, fetched, count) ==
    [op |-> op, key |-> key, outcome |-> outcome, fetched |-> fetched,
     count |-> count]

(***************************************************************************)
(* The fetch tool's CSV for date d: a table of raw rows.                   *)
(***************************************************************************)
RawRow(ts, vol) == [timestamp |-> ts, volume |-> vol]

\* A header-only CSV, or one bar of that day.
RawTables(d) == { <<>>, << RawRow(TsOf(d, 0), 1) >> }

\* The resolution of the parsed timestamp, in ticks per second (the code's
\* datetime64 has 10**9; the model keeps three digits below the second).
TicksPerSecond == 1000

\* df['timestamp'].astype(np.int64): the ticks since the epoch of the UTC
\* minute ts.
EpochTicks(ts) == ts * 60 * TicksPerSecond

\* A conversion that reads the wall-clock time in a zone one hour east of
\* UTC.
UnixTimeLocal(ts) == (EpochTicks(ts) + 3600 * TicksPerSecond) \div TicksPerSecond

\* convert_to_parquet: parses the timestamp as UTC, derives unix_time by
\* floor division, puts symbol first.
UnixTime(ts) == EpochTicks(ts) \div TicksPerSecond

NormalizeRow(r, symbol) ==
    [symbol |-> symbol, timestamp |-> r.timestamp,
     unix_time |-> UnixTime(r.timestamp), volume |-> r.volume]

Normalize(table, symbol) ==
    [i \in DOMAIN table |-> NormalizeRow(table[i], symbol)]

\* A timestamp cell that pd.to_datetime(format='%Y-%m-%d %H:%M') rejects
\* (or a table with no timestamp column at all).
Unparsable == -1

\* convert_to_parquet, line 58: every timestamp of the table parses.
SchemaOk(table) == \A i \in DOMAIN table : table[i].timestamp # Unparsable

\* The malformed CSVs a fetch can deliver for a day.
BadTables(d) == { << RawRow(Unparsable, 1) >> }

\* No DataFrame.
NoFrame == [columns |-> <<>>, symbol |-> "", instrument |-> ""]

\* A directory of per-date files with nothing in it.
EmptyDir == [d \in Dates |-> NoFile]

VARIABLES
    today,      \* the calendar date of the clock
    daily,      \* ohlcv/1s: date -> file at symbol=S/date=D/S_D.parquet
    yearly,     \* ohlcv/1Ys: year -> file at symbol=S/year=Y/S_Y.parquet
    download,   \* download/: CSV name (timeframe, date) -> file
    run,        \* the ingestion run in progress, if any
    attempted,  \* the dates the current (or last) ingestion run has attempted
    last,       \* what the last step reported
    cons,       \* consolidation process -> what it holds between its read
                \* of the store and its write of the yearly file
    index,      \* instruments.json
    frame,      \* the DataFrame convert_to_parquet holds: its column labels
    bucket,     \* the object store's ohlcv/1s, as "mc" sees it: date -> file
    local1m     \* the local directory ohlcv/1m: date -> file

vars ==
    <<today, daily, yearly, download, run, attempted, last, cons, index,
      frame, bucket, local1m>>

\* The consolidation processes that can be alive at once.
Procs == {1, 2}

\* A consolidation process that is not between its read and its write.
NotConsolidating == [pc |-> "idle", year |-> 0, final |-> <<>>]

\* instruments.json: the instrument's dataRange.latest (0: none recorded)
\* and _data_boundaries_updated (0: never).
Index(latest, updated) ==
    [kind |-> "json", latest |-> latest, updated |-> updated]

Timeframes == {"s1", "m1"}

CsvNames == Timeframes \X Dates

\* run_dukascopy asks the tool for "-t s1": the CSV it writes is named s1.
FetchedName(d) == <<"s1", d>>

\* The CSV name each script looks up after the fetch.
IngestCsvName(d) == <<"s1", d>>

BackfillCsvName(d) == <<"m1", d>>

\* run.pc: "idle" (no ingestion process), "loop" (in the loop over the
\* dates, about to handle run.cur), "done" (past the loop, about to exit).
\* from_date, to_date: the --from and --to options (0: not given).
Idle ==
    [script |-> "none", pc |-> "idle", from_date |-> 0, to_date |-> 0,
     start |-> 0, cur |-> 0, limit |-> 0]

ExistingDates == {d \in Dates : Exists(daily[d])}

Init ==
    /\ today = 1
    /\ daily = [d \in Dates |-> NoFile]
    /\ yearly = [y \in Years |-> NoFile]
    /\ download = [n \in CsvNames |-> NoFile]
    /\ run = Idle
    /\ attempted = <<>>
    /\ last = Log("init", 0, "none", FALSE, -1)
    /\ cons = [p \in Procs |-> NotConsolidating]
    /\ index = Index(0, 0)
    /\ frame = NoFrame
    /\ bucket = EmptyDir
    /\ local1m = EmptyDir

\* The clock moves to the next day.
Tick ==
    /\ run.pc # "done"
    /\ today < MaxDate
    /\ today' = today + 1
    /\ UNCHANGED <<frame, bucket, local1m>>
    /\ UNCHANGED <<cons, index, daily, yearly, download, run, attempted, last>>

(***************************************************************************)
(* The fetch (run_dukascopy): the tool exits non-zero ("error"), or exits  *)
(* zero having written nothing, a zero-size CSV or a CSV table under the   *)
(* s1 name.  The provider holds data for dates up to today only.           *)
(***************************************************************************)
FetchResults(d) ==
    {[exit |-> "error", file |-> NoFile], [exit |-> "ok", file |-> NoFile],
     [exit |-> "ok", file |-> ZeroSize]}
    \cup (IF d <= today
          THEN {[exit |-> "ok", file |-> Csv(t)] : t \in RawTables(d)}
          ELSE {})

DownloadAfterFetch(d, res) ==
    IF Exists(res.file) THEN [download EXCEPT ![FetchedName(d)] = res.file]
    ELSE download

\* newest_parquet_date: the newest date whose parquet file exists, or 0.
NewestParquetDate ==
    IF ExistingDates = {} THEN 0 ELSE Max(ExistingDates)

\* ingest_symbol, lines 119-126: the first date of the forward gap.
ForwardStart(start_override) ==
    LET latest == NewestParquetDate
        start_date == IF start_override # 0 THEN start_override
                      ELSE IF latest # 0 THEN latest + 1 ELSE EarliestDate
    IN  IF start_date > EarliestDate THEN start_date ELSE EarliestDate

\* A variant that never lets the range run past yesterday.
ForwardEndClamped(to_date) ==
    IF to_date # 0 /\ to_date < today - 1 THEN to_date ELSE today - 1

\* main: --to as given, else yesterday.
ForwardEnd(to_date) == IF to_date # 0 THEN to_date ELSE today - 1

\* daily_ingest.py main + ingest_symbol up to the loop.  0 stands for an
\* option that was not given.
StartIngest(start_override, to_date) ==
    /\ run.pc = "idle"
    /\ LET start_date == ForwardStart(start_override)
           end_date == ForwardEnd(to_date)
       IN  IF start_date > end_date
           THEN /\ run' = [script |-> "daily_ingest", pc |-> "done",
                           from_date |-> start_override, to_date |-> to_date,
                           start |-> start_date, cur |-> start_date,
                           limit |-> end_date]
                /\ last' = Log("ingest", 0, "UpToDate", FALSE, -1)
           ELSE /\ run' = [script |-> "daily_ingest", pc |-> "loop",
                           from_date |-> start_override, to_date |-> to_date,
                           start |-> start_date, cur |-> start_date,
                           limit |-> end_date]
                /\ last' = Log("ingest", 0, "Started", FALSE, -1)
    /\ attempted' = <<>>
    /\ UNCHANGED <<frame, bucket, local1m>>
    /\ UNCHANGED <<cons, index, today, daily, yearly, download>>

\* A variant that takes only a missing CSV, not a zero-size one, as no data.
IsNoDataMissingOnly(csv) == ~Exists(csv)

\* ingest_symbol, line 150: the CSV is missing or has size 0.
IsNoData(csv) == ~Exists(csv) \/ csv = ZeroSize

\* A variant of the loop that handles the last date of the range twice.
AdvanceIngestRepeatLast ==
    IF run.cur + 1 <= run.limit
    THEN [run EXCEPT !.cur = run.cur + 1]
    ELSE IF Len(attempted) = run.limit - run.start
    THEN run
    ELSE [run EXCEPT !.cur = run.cur + 1, !.pc = "done"]

\* daterange / the for loop: the next date, or the end of the run.
AdvanceIngest ==
    IF run.cur + 1 <= run.limit
    THEN [run EXCEPT !.cur = run.cur + 1]
    ELSE [run EXCEPT !.cur = run.cur + 1, !.pc = "done"]

\* One iteration of ingest_symbol's loop, for date run.cur.
IngestDay ==
    /\ run.pc = "loop"
    /\ run.script = "daily_ingest"
    /\ LET day == run.cur IN
       /\ attempted' = Append(attempted, day)
       /\ run' = AdvanceIngest
       /\ IF Exists(daily[day])
          THEN /\ last' = Log("ingest", day, "AlreadyPresent", FALSE, -1)
               /\ UNCHANGED <<daily, download>>
          ELSE \E res \in FetchResults(day) :
               /\ download' = DownloadAfterFetch(day, res)
               /\ IF res.exit = "error"
                  THEN /\ last' = Log("ingest", day, "Failed", TRUE, -1)
                       /\ UNCHANGED daily
                  ELSE LET csv == download'[IngestCsvName(day)] IN
                       IF IsNoData(csv)
                       THEN /\ last' = Log("ingest", day, "NoData", TRUE, -1)
                            /\ UNCHANGED daily
                       ELSE /\ SchemaOk(csv.rows)
                            /\ daily' = [daily EXCEPT ![day] =
                                       Parquet(Normalize(csv.rows, SymbolKey))]
                            /\ last' = Log("ingest", day, "Written", TRUE, -1)
    /\ UNCHANGED <<frame, bucket, local1m>>
    /\ UNCHANGED <<cons, index, today, yearly>>

\* The process dies, or the disk fails, while convert_to_parquet's
\* df.to_parquet writes the final path: the run ends there.
IngestInterrupted ==
    /\ run.pc = "loop"
    /\ run.script = "daily_ingest"
    /\ LET day == run.cur IN
       /\ ~Exists(daily[day])
       /\ \E res \in FetchResults(day) :
          /\ res.exit = "ok"
          /\ download' = DownloadAfterFetch(day, res)
          /\ download'[IngestCsvName(day)].kind = "csv"
       /\ daily' = [daily EXCEPT ![day] = Truncated]
       /\ attempted' = Append(attempted, day)
       /\ run' = [run EXCEPT !.pc = "done"]
       /\ last' = Log("ingest", day, "Interrupted", TRUE, -1)
    /\ UNCHANGED <<frame, bucket, local1m>>
    /\ UNCHANGED <<cons, index, today, yearly>>

\* One iteration of ingest_symbol's loop in which convert_to_parquet raises:
\* the timestamp column does not parse (KeyError, ValueError) or a file
\* cannot be read or written (OSError).  ingest_symbol catches only
\* subprocess.CalledProcessError, so the exception leaves the loop, main and
\* the process.
IngestDayRaises ==
    /\ run.pc = "loop"
    /\ run.script = "daily_ingest"
    /\ LET day == run.cur IN
       /\ ~Exists(daily[day])
       /\ \E res \in FetchResults(day) \cup
                     {[exit |-> "ok", file |-> Csv(t)] : t \in BadTables(day)} :
          /\ res.exit = "ok"
          /\ download' = DownloadAfterFetch(day, res)
          /\ LET csv == download'[IngestCsvName(day)] IN
             /\ ~IsNoData(csv)
             /\ \E raised \in {"SchemaError", "IOError"} :
                /\ raised = "SchemaError" <=> ~SchemaOk(csv.rows)
                /\ last' = Log("ingest", day, raised, TRUE, -1)
       /\ attempted' = Append(attempted, day)
       /\ run' = [run EXCEPT !.pc = "done"]
    /\ UNCHANGED <<frame, bucket, local1m>>
    /\ UNCHANGED <<cons, index, today, daily, yearly>>

\* The ingestion script returns from main and its process exits.
ExitIngest ==
    /\ run.pc = "done"
    /\ run' = Idle
    /\ attempted' = <<>>
    /\ UNCHANGED <<frame, bucket, local1m>>
    /\ UNCHANGED <<cons, index, today, daily, yearly, download, last>>

(***************************************************************************)
(* backfill_missing.py                                                     *)
(***************************************************************************)
\* A variant whose range includes the cutoff date when nothing exists.
BackfillRangeCutoffInclusive ==
    IF ExistingDates = {}
    THEN [lo |-> EarliestDate, hi |-> today + 1]
    ELSE IF EarliestDate < Min(ExistingDates)
         THEN [lo |-> EarliestDate, hi |-> Min(ExistingDates)]
         ELSE [lo |-> 0, hi |-> 0]

\* A variant that runs up to the newest existing date instead of the oldest.
BackfillRangeToNewest ==
    IF ExistingDates = {}
    THEN [lo |-> EarliestDate, hi |-> today]
    ELSE IF EarliestDate < Max(ExistingDates)
         THEN [lo |-> EarliestDate, hi |-> Max(ExistingDates)]
         ELSE [lo |-> 0, hi |-> 0]

\* main, lines 111-125: the half-open range [lo, hi) handed to
\* ingest_symbol_backfill; lo = hi = 0 when it is not called.
BackfillRange ==
    LET earliest_required == EarliestDate
        existing_dates == ExistingDates
    IN  IF existing_dates = {}
        THEN [lo |-> earliest_required, hi |-> today]
        ELSE IF earliest_required < Min(existing_dates)
             THEN [lo |-> earliest_required, hi |-> Min(existing_dates)]
             ELSE [lo |-> 0, hi |-> 0]

StartBackfill ==
    /\ run.pc = "idle"
    /\ LET r == BackfillRange IN
       /\ run' = [script |-> "backfill_missing",
                  pc |-> IF r.lo < r.hi THEN "loop" ELSE "done",
                  from_date |-> 0, to_date |-> 0,
                  start |-> r.lo, cur |-> r.lo, limit |-> r.hi]
       /\ last' = Log("backfill", 0,
                      IF r.lo < r.hi THEN "Started" ELSE "NothingToBackfill",
                      FALSE, -1)
    /\ attempted' = <<>>
    /\ UNCHANGED <<frame, bucket, local1m>>
    /\ UNCHANGED <<cons, index, today, daily, yearly, download>>

\* while current < earliest_available
AdvanceBackfill ==
    IF run.cur + 1 < run.limit
    THEN [run EXCEPT !.cur = run.cur + 1]
    ELSE [run EXCEPT !.cur = run.cur + 1, !.pc = "done"]

\* One iteration of ingest_symbol_backfill's loop, for date run.cur.
BackfillDay ==
    /\ run.pc = "loop"
    /\ run.script = "backfill_missing"
    /\ LET day == run.cur IN
       /\ attempted' = Append(attempted, day)
       /\ run' = AdvanceBackfill
       /\ IF Exists(daily[day])
          THEN /\ last' = Log("backfill", day, "AlreadyPresent", FALSE, -1)
               /\ UNCHANGED <<daily, download>>
          ELSE \E res \in FetchResults(day) :
               /\ download' = DownloadAfterFetch(day, res)
               /\ IF res.exit = "error"
                  THEN /\ last' = Log("backfill", day, "Failed", TRUE, -1)
                       /\ UNCHANGED daily
                  ELSE LET csv == download'[BackfillCsvName(day)] IN
                       IF ~Exists(csv)
                       THEN /\ last' = Log("backfill", day, "NoData", TRUE, -1)
                            /\ UNCHANGED daily
                       ELSE IF csv = ZeroSize \/ ~SchemaOk(csv.rows)
                       THEN \* pd.read_csv or pd.to_datetime raises, caught
                            \* by except Exception
                            /\ last' = Log("backfill", day, "Failed", TRUE, -1)
                            /\ UNCHANGED daily
                       ELSE /\ daily' = [daily EXCEPT ![day] =
                                       Parquet(Normalize(csv.rows, SymbolKey))]
                            /\ last' = Log("backfill", day, "Written", TRUE, -1)
    /\ UNCHANGED <<frame, bucket, local1m>>
    /\ UNCHANGED <<cons, index, today, yearly>>

(***************************************************************************)
(* yearly_consolidation.py and historical_consolidation_script.py          *)
(***************************************************************************)
\* get_last_consolidated_date: the date of the newest timestamp of the yearly
\* file; 0 (None) when the file is missing, unreadable or empty.
get_last_consolidated_date(f) ==
    IF ~Exists(f) THEN 0
    ELSE IF f.kind # "parquet" THEN 0
    ELSE IF f.rows = <<>> THEN 0
    ELSE DateOfTs(Max({f.rows[i].timestamp : i \in DOMAIN f.rows}))

\* A variant that takes every daily file of the year, whatever start_date.
get_daily_files_of_year(year, start_date) ==
    {d \in Dates : YearOf(d) = year /\ Exists(daily[d])}

\* get_daily_files_to_process: the dates of the year, after start_date,
\* whose daily file exists (the files come sorted by path, that is by date).
get_daily_files_to_process(year, start_date) ==
    {d \in Dates : /\ YearOf(d) = year
                   /\ (start_date = 0 \/ d > start_date)
                   /\ Exists(daily[d])}

RECURSIVE ConcatDaily(_)
\* pl.concat of the daily files, in ascending date order.
ConcatDaily(ds) ==
    IF ds = {} THEN <<>>
    ELSE LET d == Min(ds) IN daily[d].rows \o ConcatDaily(ds \ {d})

\* A variant that writes the new daily rows alone.
CombinedNewOnly(dst_file, new_data) == new_data

\* Lines 212-224: the existing yearly rows, when the file exists, followed by
\* the new daily rows.
Combined(dst_file, new_data) ==
    IF Exists(dst_file) THEN dst_file.rows \o new_data ELSE new_data

RemoveAt(s, i) == SubSeq(s, 1, i - 1) \o SubSeq(s, i + 1, Len(s))

RECURSIVE SortOutcomes(_)
\* .sort('timestamp'): ascending by timestamp; rows of equal timestamp come
\* in any order.
SortOutcomes(s) ==
    IF s = <<>> THEN {<<>>}
    ELSE LET m == Min({s[i].timestamp : i \in DOMAIN s})
         IN  UNION {{<<s[i]>> \o t : t \in SortOutcomes(RemoveAt(s, i))} :
                    i \in {j \in DOMAIN s : s[j].timestamp = m}}

RECURSIVE Orderings(_)
Orderings(S) ==
    IF S = {} THEN {<<>>}
    ELSE UNION {{<<x>> \o t : t \in Orderings(S \ {x})} : x \in S}

\* A variant that keeps one row per timestamp instead of one per distinct row.
UniqueByTimestampOutcomes(s) ==
    UNION {Orderings(T) :
            T \in {U \in SUBSET Range(s) :
                     \A r \in Range(s) :
                        Cardinality({u \in U : u.timestamp = r.timestamp}) = 1}}

\* .unique() with its defaults (subset=None, maintain_order=False): one copy
\* of each distinct row, in an order polars does not specify.
UniqueOutcomes(s) == Orderings(Range(s))

IsSortedByTimestamp(s) ==
    \A i \in 1..(Len(s) - 1) : s[i].timestamp <= s[i + 1].timestamp

\* The daily partitions a consolidation of year y selects now.
SelectedDaily(y) ==
    get_daily_files_to_process(y, get_last_consolidated_date(yearly[y]))

\* A variant in which every file reads, a damaged one as an empty frame.
UnreadableNever(f) == FALSE

\* pl.scan_parquet(...).collect() raises on a file that is not a whole
\* parquet file.
Unreadable(f) == f.kind # "parquet"

\* process_symbol_year(symbol, year).  interrupted: the process dies while
\* write_parquet writes the final path.
process_symbol_year(year, interrupted) ==
    LET dst_file == yearly[year]
        last_consolidated_date == get_last_consolidated_date(dst_file)
        daily_files == get_daily_files_to_process(year, last_consolidated_date)
    IN  IF daily_files = {}
        THEN /\ ~interrupted
             /\ last' = Log("consolidate", year, "NoNewFiles", FALSE, -1)
             /\ UNCHANGED yearly
        ELSE IF \/ \E d \in daily_files : Unreadable(daily[d])
                \/ (Exists(dst_file) /\ Unreadable(dst_file))
        THEN \* scan_parquet raises inside the try block
             /\ ~interrupted
             /\ last' = Log("consolidate", year, "Error", FALSE, -1)
             /\ UNCHANGED yearly
        ELSE LET new_data == ConcatDaily(daily_files)
                 combined == Combined(dst_file, new_data)
             IN  \E sorted \in SortOutcomes(combined) :
                 \E final \in UniqueOutcomes(sorted) :
                    IF interrupted
                    THEN /\ yearly' = [yearly EXCEPT ![year] = Truncated]
                         /\ last' = Log("consolidate", year, "Interrupted",
                                        FALSE, -1)
                    ELSE /\ yearly' = [yearly EXCEPT ![year] = Parquet(final)]
                         /\ last' = Log("consolidate", year, "Saved", FALSE,
                                        Len(final))

\* CURRENT_YEAR = datetime.now().year
CURRENT_YEAR == YearOf(today)

PREVIOUS_YEAR == CURRENT_YEAR - 1

\* yearly_consolidation.py main: the current year only.
YearlyConsolidation ==
    /\ run.pc # "done"
    /\ process_symbol_year(CURRENT_YEAR, FALSE)
    /\ UNCHANGED <<frame, bucket, local1m>>
    /\ UNCHANGED <<cons, index, today, daily, download, run, attempted>>

\* A variant that also takes the current year as historical.
get_historical_years_to_current ==
    {y \in Years : /\ \E d \in ExistingDates : YearOf(d) = y
                   /\ y <= CURRENT_YEAR}

\* get_historical_years_for_symbol: the years that have a daily partition,
\* up to PREVIOUS_YEAR.
get_historical_years ==
    {y \in Years : /\ \E d \in ExistingDates : YearOf(d) = y
                   /\ y <= PREVIOUS_YEAR}

\* historical_consolidation_script.py main, one year of its loop.
HistoricalConsolidation(year) ==
    /\ run.pc # "done"
    /\ year \in get_historical_years
    /\ process_symbol_year(year, FALSE)
    /\ UNCHANGED <<frame, bucket, local1m>>
    /\ UNCHANGED <<cons, index, today, daily, download, run, attempted>>

\* Either script, dying in its write of the yearly file.
ConsolidationInterrupted(year) ==
    /\ run.pc # "done"
    /\ year = CURRENT_YEAR \/ year \in get_historical_years
    /\ process_symbol_year(year, TRUE)
    /\ UNCHANGED <<frame, bucket, local1m>>
    /\ UNCHANGED <<cons, index, today, daily, download, run, attempted>>

\* The scripts, each running to completion.
Next ==
    \/ Tick
    \/ \E so \in 0..MaxDate, to \in 0..MaxDate : StartIngest(so, to)
    \/ IngestDay
    \/ ExitIngest
    \/ StartBackfill
    \/ BackfillDay
    \/ YearlyConsolidation
    \/ \E y \in Years : HistoricalConsolidation(y)

Spec == Init /\ [][Next]_vars

\* The scripts, any of which may die during a write.
NextCrash ==
    \/ Next
    \/ IngestInterrupted
    \/ \E y \in Years : ConsolidationInterrupted(y)

SpecCrash == Init /\ [][NextCrash]_vars

\* The scripts, with conversions that can raise.
NextFault ==
    \/ Next
    \/ IngestDayRaises

SpecFault == Init /\ [][NextFault]_vars

(***************************************************************************)
(* Consolidation over a store whose daily partitions repeat or correct     *)
(* each other's bars: the provider's CSVs of two days are any tables of at  *)
(* most two bars out of two minutes and two volumes.                       *)
(***************************************************************************)
StoreRows ==
    {RawRow(ts, vol) : ts \in {TsOf(EarliestDate, 0), TsOf(EarliestDate, 1)},
                       vol \in {1, 2}}

StoreTables ==
    {<<>>} \cup {<<r>> : r \in StoreRows}
           \cup {<<p[1], p[2]>> : p \in {x \in StoreRows \X StoreRows : x[1] # x[2]}}

\* Two daily partitions.
StoreDates == {EarliestDate, EarliestDate + 1}

InitStore ==
    /\ today = MaxDate
    /\ daily \in {f \in [Dates -> {NoFile} \cup
                               {Parquet(Normalize(t, SymbolKey)) : t \in StoreTables}] :
                  \A d \in Dates \ StoreDates : f[d] = NoFile}
    /\ yearly = [y \in Years |-> NoFile]
    /\ download = [n \in CsvNames |-> NoFile]
    /\ run = Idle
    /\ attempted = <<>>
    /\ last = Log("init", 0, "none", FALSE, -1)
    /\ cons = [p \in Procs |-> NotConsolidating]
    /\ index = Index(0, 0)
    /\ frame = NoFrame
    /\ bucket = EmptyDir
    /\ local1m = EmptyDir

NextStore ==
    \/ YearlyConsolidation
    \/ \E y \in Years : HistoricalConsolidation(y)

SpecStore == InitStore /\ [][NextStore]_vars

(***************************************************************************)
(* Consolidation over a store in which an interrupted ingestion has left   *)
(* damaged daily partitions, before or after an earlier consolidation of   *)
(* the first partition.                                                    *)
(***************************************************************************)
DamagedFiles ==
    {NoFile, Truncated} \cup {Parquet(Normalize(t, SymbolKey)) : t \in StoreTables}

InitDamaged ==
    /\ today = MaxDate
    /\ daily \in {f \in [Dates -> DamagedFiles] :
                  \A d \in Dates \ StoreDates : f[d] = NoFile}
    /\ yearly \in {g \in [Years -> {NoFile} \cup
                          (IF daily[EarliestDate].kind = "parquet"
                           THEN {Parquet(r) :
                                   r \in UniqueOutcomes(daily[EarliestDate].rows)}
                           ELSE {})] :
                   \A y \in Years \ {YearOf(EarliestDate)} : g[y] = NoFile}
    /\ download = [n \in CsvNames |-> NoFile]
    /\ run = Idle
    /\ attempted = <<>>
    /\ last = Log("init", 0, "none", FALSE, -1)
    /\ cons = [p \in Procs |-> NotConsolidating]
    /\ index = Index(0, 0)
    /\ frame = NoFrame
    /\ bucket = EmptyDir
    /\ local1m = EmptyDir

SpecDamaged == InitDamaged /\ [][NextStore]_vars

(***************************************************************************)
(* Consolidation as the two steps other processes can come between: the    *)
(* read of the yearly file and of the daily files up to collect(), and the  *)
(* write_parquet of the result.  No lock, lock file or other exclusion is   *)
(* taken by either script, so any number of processes can be between the    *)
(* two steps for the same year.                                            *)
(***************************************************************************)
\* process_symbol_year, lines 175-231: what collect() can return for the
\* year now.
MergeOutcomes(year) ==
    LET dst_file == yearly[year]
        daily_files == SelectedDaily(year)
        new_data == ConcatDaily(daily_files)
        combined == Combined(dst_file, new_data)
    IN  UNION {UniqueOutcomes(sorted) : sorted \in SortOutcomes(combined)}

\* Process p runs process_symbol_year for the year up to collect().
ConsolidateRead(p, year) ==
    /\ cons[p].pc = "idle"
    /\ run.pc # "done"
    /\ year = CURRENT_YEAR \/ year \in get_historical_years
    /\ SelectedDaily(year) # {}
    /\ \A d \in SelectedDaily(year) : ~Unreadable(daily[d])
    /\ Exists(yearly[year]) => ~Unreadable(yearly[year])
    /\ \E final \in MergeOutcomes(year) :
          cons' = [cons EXCEPT ![p] =
                     [pc |-> "merged", year |-> year, final |-> final]]
    /\ UNCHANGED <<frame, bucket, local1m>>
    /\ UNCHANGED <<today, daily, yearly, download, run, attempted, last, index>>

\* Process p runs final_df.write_parquet(dst_file) and returns.
ConsolidateWrite(p) ==
    /\ cons[p].pc = "merged"
    /\ run.pc # "done"
    /\ yearly' = [yearly EXCEPT ![cons[p].year] = Parquet(cons[p].final)]
    /\ last' = Log("consolidate", cons[p].year, "Saved", FALSE,
                   Len(cons[p].final))
    /\ cons' = [cons EXCEPT ![p] = NotConsolidating]
    /\ UNCHANGED <<frame, bucket, local1m>>
    /\ UNCHANGED <<today, daily, download, run, attempted, index>>

\* The nightly ingestion and the consolidation processes, some days after
\* the instrument's earliest date.
InitConcurrent ==
    /\ today = MaxDate
    /\ daily = [d \in Dates |-> NoFile]
    /\ yearly = [y \in Years |-> NoFile]
    /\ download = [n \in CsvNames |-> NoFile]
    /\ run = Idle
    /\ attempted = <<>>
    /\ last = Log("init", 0, "none", FALSE, -1)
    /\ cons = [p \in Procs |-> NotConsolidating]
    /\ index = Index(0, 0)
    /\ frame = NoFrame
    /\ bucket = EmptyDir
    /\ local1m = EmptyDir

NextConcurrent ==
    \/ StartIngest(0, 0)
    \/ IngestDay
    \/ ExitIngest
    \/ \E p \in Procs, y \in Years : ConsolidateRead(p, y)
    \/ \E p \in Procs : ConsolidateWrite(p)

SpecConcurrent == InitConcurrent /\ [][NextConcurrent]_vars

(***************************************************************************)
(* update_instruments_metadata.py                                          *)
(***************************************************************************)
\* The years `mc ls` shows a year= directory for.
YearsWithFile == {y \in Years : Exists(yearly[y])}

\* Lines 89-93 and 118-122: the estimated date, today for the current year
\* and December 31 for a past year.
FallbackDate(year) == IF year = CURRENT_YEAR THEN today ELSE year * YearLen

\* Line 111: str(None)[:10], the text "None", which the maximum of an empty
\* timestamp column turns into.
NoneString == -1

\* get_latest_date_for_symbol.  visible: the years whose `mc ls` succeeds
\* and shows the yearly file; dl_ok: `mc cp` of the file succeeds.  0 is
\* None.  Every branch taken after the yearly file of the newest visible
\* year is found returns: no older year is looked at.
get_latest_date_for_symbol(visible, dl_ok) ==
    IF visible = {} THEN 0
    ELSE LET year == Max(visible)
             f == yearly[year]
         IN  IF ~dl_ok \/ Unreadable(f) THEN FallbackDate(year)
             ELSE IF f.rows = <<>> THEN NoneString
             ELSE DateOfTs(Max({f.rows[i].timestamp : i \in DOMAIN f.rows}))

\* update_instruments_metadata: load instruments.json, refresh the
\* instrument's latest date, write the file back.  last.fetched tells
\* whether every mc command succeeded.
UpdateInstrumentsMetadata ==
    /\ IF index.kind # "json"
       THEN /\ last' = Log("metadata", 0, "IndexUnreadable", FALSE, -1)
            /\ UNCHANGED index
       ELSE \E visible \in SUBSET YearsWithFile, dl_ok \in BOOLEAN :
            LET latest_date == get_latest_date_for_symbol(visible, dl_ok)
                mc_ok == visible = YearsWithFile /\ dl_ok
            IN  /\ index' = Index(IF latest_date # 0 THEN latest_date
                                  ELSE index.latest, today)
                /\ last' = Log("metadata",
                               IF visible = {} THEN 0 ELSE Max(visible),
                               IF latest_date # 0 THEN "Updated" ELSE "Unchanged",
                               mc_ok, -1)
    /\ UNCHANGED <<frame, bucket, local1m>>
    /\ UNCHANGED <<today, daily, yearly, download, run, attempted, cons>>

\* The process dies, or the disk fails, between open('instruments.json',
\* 'w'), which empties the file, and the end of json.dump.
MetadataWriteInterrupted ==
    /\ index.kind = "json"
    /\ index' = [kind |-> "Truncated", latest |-> 0, updated |-> 0]
    /\ last' = Log("metadata", 0, "Interrupted", FALSE, -1)
    /\ UNCHANGED <<frame, bucket, local1m>>
    /\ UNCHANGED <<today, daily, yearly, download, run, attempted, cons>>

\* The yearly files consolidation and its interruption can leave for a year.
YearlyFilesOf(y) ==
    {NoFile, Truncated, Parquet(<<>>)} \cup
    {Parquet(Normalize(<<RawRow(TsOf(d, 0), 1)>>, SymbolKey)) :
        d \in {e \in Dates : YearOf(e) = y /\ e >= EarliestDate}}

InitMeta ==
    /\ today = MaxDate
    /\ daily = [d \in Dates |-> NoFile]
    /\ yearly \in {g \in [Years -> UNION {YearlyFilesOf(y) : y \in Years}] :
                     \A y \in Years : g[y] \in YearlyFilesOf(y)}
    /\ download = [n \in CsvNames |-> NoFile]
    /\ run = Idle
    /\ attempted = <<>>
    /\ last = Log("init", 0, "none", FALSE, -1)
    /\ cons = [p \in Procs |-> NotConsolidating]
    /\ index \in {Index(l, 0) : l \in {0} \cup (EarliestDate..MaxDate)}
    /\ frame = NoFrame
    /\ bucket = EmptyDir
    /\ local1m = EmptyDir

NextMeta == UpdateInstrumentsMetadata

SpecMeta == InitMeta /\ [][NextMeta]_vars

NextMetaCrash ==
    \/ UpdateInstrumentsMetadata
    \/ MetadataWriteInterrupted

SpecMetaCrash == InitMeta /\ [][NextMetaCrash]_vars

(***************************************************************************)
(* Properties                                                              *)
(***************************************************************************)
YearlyRows(y) ==
    IF yearly[y].kind = "parquet" THEN Range(yearly[y].rows) ELSE {}

DailyRowsOfYear(y) ==
    UNION {Range(daily[d].rows) :
           d \in {e \in Dates : YearOf(e) = y /\ daily[e].kind = "parquet"}}

\* The dates lo, lo+1, ..., hi in ascending order (none when lo > hi).
DateRange(lo, hi) ==
    IF lo > hi THEN <<>> ELSE [i \in 1..(hi - lo + 1) |-> lo + i - 1]

\* A step that is one iteration of an ingestion loop, for date d.
IngestStepOn(d) ==
    run.pc = "loop" /\ run.cur = d /\ attempted' = Append(attempted, d)

\* C1: once a consolidation of a year has completed successfully, the yearly
\* partition holds every row of every daily partition of that year, also of
\* those written, for a date up to the last consolidated date, after an
\* earlier consolidation.
C1_ConsolidationLosesNothing ==
    (last.op = "consolidate" /\ last.outcome \in {"Saved", "NoNewFiles"})
        => DailyRowsOfYear(last.key) \subseteq YearlyRows(last.key)

\* C2: on either ingestion path, ingesting a date whose daily partition
\* exists reports AlreadyPresent, runs no fetch and writes nothing; ingesting
\* a date that has none and for which the fetch brought data reports Written
\* and leaves the partition in place.
C2_IdempotentIngestion ==
    [][\A d \in Dates : IngestStepOn(d) =>
          IF Exists(daily[d])
          THEN /\ last'.outcome = "AlreadyPresent"
               /\ ~last'.fetched
               /\ daily' = daily
               /\ download' = download
          ELSE (/\ last'.outcome # "Failed"
                /\ download'[FetchedName(d)].kind = "csv"
                /\ download'[FetchedName(d)].rows # <<>>)
                  => (last'.outcome = "Written" /\ daily'[d].kind = "parquet")]_vars

\* C2, the half about a date already present alone: no fetch, no write.
C2_ExistingDateIsSkipped ==
    [][\A d \in Dates : (IngestStepOn(d) /\ Exists(daily[d])) =>
          /\ last'.outcome = "AlreadyPresent"
          /\ ~last'.fetched
          /\ daily' = daily
          /\ download' = download]_vars

\* C3: a consolidation of a year that follows a completed consolidation of
\* the same year, no daily partition written in between, leaves the yearly
\* partition row-for-row identical (same rows, same order), and a record
\* count it reports is the count the first run left.
C3_ConsolidationIdempotent ==
    [][\A y \in Years :
          (/\ last.op = "consolidate" /\ last.key = y
           /\ last.outcome \in {"Saved", "NoNewFiles"}
           /\ last'.op = "consolidate" /\ last'.key = y)
          => /\ yearly'[y] = yearly[y]
             /\ (last'.count # -1 => last'.count = Len(yearly[y].rows))]_vars

NoDuplicateRows(rows) ==
    \A i, j \in DOMAIN rows : i # j => rows[i] # rows[j]

\* Two daily partitions of two rows each that share one fully identical row
\* and hold one row each that differs from the other's only in volume.
IsDedupExample ==
    LET A == Range(daily[EarliestDate].rows)
        B == Range(daily[EarliestDate + 1].rows)
    IN  /\ Cardinality(A) = 2 /\ Cardinality(B) = 2
        /\ Cardinality(A \cap B) = 1
        /\ \E a \in A \ B, b \in B \ A :
              a.timestamp = b.timestamp /\ a.volume # b.volume

\* C4: a consolidated yearly partition holds no two rows equal in every
\* column and holds every distinct row of the year's daily partitions, rows
\* that share a timestamp included; the two partitions of the example give
\* exactly 3 rows.
C4_DedupCorrect ==
    \A y \in Years : yearly[y].kind = "parquet" =>
        /\ NoDuplicateRows(yearly[y].rows)
        /\ Range(yearly[y].rows) = DailyRowsOfYear(y)
        /\ (IsDedupExample /\ y = YearOf(EarliestDate))
              => Len(yearly[y].rows) = 3

C4_Witness ==
    /\ IsDedupExample
    /\ yearly[YearOf(EarliestDate)].kind = "parquet"
    /\ last.outcome = "Saved"

\* C5: in every yearly partition written by consolidation, each row's
\* timestamp is at most the next row's.
C5_YearlySorted ==
    \A y \in Years : yearly[y].kind = "parquet" =>
        IsSortedByTimestamp(yearly[y].rows)

\* C6: no state is reachable in which the file at a final yearly path exists
\* and holds neither the full old nor the full new content.
C6_YearlyWriteAtomic ==
    \A y \in Years : yearly[y].kind # "Truncated"

\* C7: whenever an ingestion run finds a date AlreadyPresent, the file at the
\* final daily path holds the complete rows of a finished write.
C7_NoPartialDailyObserved ==
    (last.op \in {"ingest", "backfill"} /\ last.outcome = "AlreadyPresent")
        => daily[last.key].kind = "parquet"

\* C8: with no daily partition present, the backfill pass visits exactly the
\* dates earliest_date <= d < today, ascending, today excluded.
C8_BackfillGapNoHistory ==
    /\ [][(run.pc = "idle" /\ run'.script = "backfill_missing"
            /\ ExistingDates = {})
          => /\ run'.start = EarliestDate
             /\ run'.limit = today
             /\ run'.cur = EarliestDate
             /\ attempted' = <<>>
             /\ (run'.pc = "loop" <=> EarliestDate < today)]_vars
    /\ [][\A d \in Dates : (IngestStepOn(d) /\ run.script = "backfill_missing")
          => /\ run'.start = run.start /\ run'.limit = run.limit
             /\ run'.cur = d + 1
             /\ (run'.pc = "loop" <=> d + 1 < run.limit)]_vars
    /\ []((run.script = "backfill_missing" /\ run.pc = "done")
            => attempted = DateRange(run.start, run.limit - 1))

C8_Witness ==
    /\ run.script = "backfill_missing" /\ run.pc = "done"
    /\ ExistingDates = {}
    /\ Len(attempted) >= 2
    /\ attempted = DateRange(EarliestDate, today - 1)

\* C9: with a daily partition present, the backfill pass visits exactly the
\* dates earliest_date <= d < min(existing dates), none when earliest_date
\* is not before that minimum, and fetches no date from that minimum on.
C9_BackfillGapPartialHistory ==
    /\ [][(run.pc = "idle" /\ run'.script = "backfill_missing"
            /\ ExistingDates # {})
          => IF EarliestDate < Min(ExistingDates)
             THEN /\ run'.start = EarliestDate
                  /\ run'.limit = Min(ExistingDates)
                  /\ run'.cur = EarliestDate
                  /\ run'.pc = "loop"
                  /\ attempted' = <<>>
             ELSE run'.pc = "done" /\ attempted' = <<>>]_vars
    /\ [][\A d \in Dates : (IngestStepOn(d) /\ run.script = "backfill_missing")
          => /\ d < run.limit
             /\ run'.limit = run.limit
             /\ (ExistingDates # {} /\ last'.fetched) => d < Min(ExistingDates)
             /\ (run'.pc = "done" => attempted' = DateRange(run.start, run.limit - 1))]_vars

C9_Witness ==
    /\ run.script = "backfill_missing" /\ run.pc = "done"
    /\ ExistingDates # {}
    /\ run.limit = Min(ExistingDates)
    /\ run.limit < today
    /\ attempted = DateRange(EarliestDate, run.limit - 1)
    /\ Len(attempted) >= 1

\* C10: without a start override the forward pass visits exactly the dates
\* start..end, where start is the later of earliest_date and the day after
\* the newest daily partition (earliest_date when there is none) and end is
\* --to as given, else yesterday; none when start > end.
C10_ForwardGap ==
    /\ [][(run.pc = "idle" /\ run'.script = "daily_ingest"
            /\ run'.from_date = 0)
          => LET lastLocal == IF ExistingDates = {} THEN 0
                              ELSE Max(ExistingDates)
                 start == IF lastLocal # 0
                          THEN Max({EarliestDate, lastLocal + 1})
                          ELSE EarliestDate
                 end == IF run'.to_date # 0 THEN run'.to_date ELSE today - 1
             IN  /\ run'.start = start
                 /\ run'.limit = end
                 /\ run'.cur = start
                 /\ attempted' = <<>>
                 /\ (run'.pc = "loop" <=> start <= end)]_vars
    /\ [][\A d \in Dates : (IngestStepOn(d) /\ run.script = "daily_ingest")
          => /\ run'.start = run.start /\ run'.limit = run.limit
             /\ run'.cur = d + 1
             /\ (run'.pc = "loop" <=> d + 1 <= run.limit)]_vars
    /\ []((run.script = "daily_ingest" /\ run.pc = "done")
            => attempted = DateRange(run.start, run.limit))

C10_Witness ==
    /\ run.script = "daily_ingest" /\ run.pc = "done"
    /\ run.from_date = 0
    /\ run.to_date > today - 1
    /\ run.start > EarliestDate
    /\ Len(attempted) >= 2
    /\ attempted = DateRange(run.start, run.to_date)

\* C11: on both ingestion paths, a step for a date with no daily partition
\* whose fetch succeeds and leaves a CSV with rows under the name the fetch
\* writes ends Written, with the normalized rows at the daily path.
C11_AbsentDateWithDataIsWritten ==
    [][\A d \in Dates :
        (/\ IngestStepOn(d)
         /\ ~Exists(daily[d])
         /\ last'.outcome # "Failed"
         /\ download'[FetchedName(d)].kind = "csv"
         /\ download'[FetchedName(d)].rows # <<>>)
        => /\ last'.outcome = "Written"
           /\ daily'[d] = Parquet(Normalize(download'[FetchedName(d)].rows,
                                            SymbolKey))]_vars

\* The gap of the run in progress has a date after d.
MoreDatesAfter(d) ==
    IF run.script = "daily_ingest" THEN d + 1 <= run.limit
    ELSE d + 1 < run.limit

\* The loop goes on after the step for date d: to d + 1 if the gap has it,
\* else to the end of the run.
ContinuesAfter(d) ==
    /\ run'.cur = d + 1
    /\ run'.start = run.start /\ run'.limit = run.limit
    /\ run'.pc = IF MoreDatesAfter(d) THEN "loop" ELSE "done"

\* After the step for date d the run is about to attempt the next date of
\* its gap, if there is one.
NextDateStillAttempted(d) ==
    MoreDatesAfter(d) => (run'.pc = "loop" /\ run'.cur = d + 1)

\* C12: a step whose fetch leaves nothing, or a zero-size file, under the
\* fetched name and does not fail is classified NoData, leaves the date
\* without a daily partition and goes on with the next date; a fetch that
\* has just produced a zero-size file never fails the step.
C12_NoDataTolerated ==
    [][\A d \in Dates :
        (IngestStepOn(d) /\ ~Exists(daily[d]))
        => /\ (/\ download'[FetchedName(d)].kind \in {"NoFile", "ZeroSize"}
               /\ last'.outcome # "Failed")
              => /\ last'.outcome = "NoData"
                 /\ daily' = daily
                 /\ ContinuesAfter(d)
           /\ (/\ download'[FetchedName(d)] = ZeroSize
               /\ download[FetchedName(d)] # ZeroSize)
              => /\ last'.outcome = "NoData"
                 /\ daily' = daily
                 /\ ContinuesAfter(d)]_vars

C12_Witness ==
    /\ last.op = "ingest" /\ last.outcome = "NoData"
    /\ download[FetchedName(last.key)] = ZeroSize
    /\ ~Exists(daily[last.key])
    /\ run.pc = "loop" /\ run.cur = last.key + 1

\* C13: a step whose fetch tool exits non-zero, or whose file reading or
\* writing raises an I/O error, fails that date only: it writes nothing and
\* the run goes on to attempt the next date of the gap.
C13_FailureIsolatedPerDate ==
    [][\A d \in Dates :
        (IngestStepOn(d) /\ last'.outcome \in {"Failed", "IOError"})
        => /\ daily' = daily
           /\ NextDateStillAttempted(d)]_vars

\* C14: a step whose CSV has an unparsable timestamp column writes no daily
\* partition for that date, and the loop goes on with the next date, on
\* either ingestion path.
C14_SchemaErrorIsolatedPerDate ==
    [][\A d \in Dates :
        (/\ IngestStepOn(d)
         /\ ~Exists(daily[d])
         /\ download'[FetchedName(d)].kind = "csv"
         /\ ~SchemaOk(download'[FetchedName(d)].rows))
        => /\ daily' = daily
           /\ NextDateStillAttempted(d)]_vars

\* C15: a consolidation of a year for which a selected daily partition
\* cannot be read reports an error and leaves every yearly partition as it
\* was; after it, consolidation of the current year and of every historical
\* year can still run.
C15_ReadFailureLeavesYearlyUntouched ==
    /\ [][\A y \in Years :
            (/\ last'.op = "consolidate" /\ last'.key = y
             /\ last' # last
             /\ \E d \in SelectedDaily(y) : daily[d].kind # "parquet")
            => /\ last'.outcome = "Error"
               /\ yearly' = yearly]_vars
    /\ []((last.op = "consolidate" /\ last.outcome = "Error"
            /\ run.pc # "done")
          => /\ ENABLED YearlyConsolidation
             /\ \A y \in get_historical_years :
                    ENABLED HistoricalConsolidation(y))

C15_Witness ==
    /\ last.op = "consolidate" /\ last.outcome = "Error"
    /\ yearly[last.key].kind = "parquet"
    /\ yearly[last.key].rows # <<>>
    /\ \E d \in SelectedDaily(last.key) : daily[d].kind = "Truncated"

\* C16: no write of a yearly partition discards a row the partition held
\* just before the write, whatever other consolidation process has written
\* it since the writer read the store.
C16_NoLostConsolidation ==
    [][\A y \in Years :
        (yearly[y].kind = "parquet" /\ yearly'[y] # yearly[y])
        => Range(yearly[y].rows) \subseteq Range(yearly'[y].rows)]_vars

\* The years whose yearly partition reads and has rows.
NonEmptyReadableYears ==
    {y \in Years : yearly[y].kind = "parquet" /\ yearly[y].rows # <<>>}

\* C17: a refresh in which every mc command succeeds records, when some
\* year has a readable non-empty yearly partition, the date of the newest
\* timestamp of the newest such year: empty and unreadable newer years are
\* passed over.
C17_LatestFromNewestReadableYear ==
    [][(/\ last'.op = "metadata" /\ last'.fetched
        /\ index.kind = "json"
        /\ NonEmptyReadableYears # {})
       => LET f == yearly[Max(NonEmptyReadableYears)]
          IN  index'.latest =
                DateOfTs(Max({f.rows[i].timestamp : i \in DOMAIN f.rows}))]_vars

\* C18: a refresh that finds no readable yearly partition in any year
\* leaves the recorded latest date as it was.
C18_NoReadableYearKeepsBoundary ==
    [][(/\ last'.op = "metadata" /\ last' # last
        /\ index.kind = "json"
        /\ \A y \in Years : yearly[y].kind # "parquet")
       => index'.latest = index.latest]_vars

\* C19: instruments.json is never a truncated file: it is the prior index or
\* the whole refreshed one.
C19_IndexWriteAllOrNothing == index.kind = "json"

\* The number of times the step that reported l called run_dukascopy: the
\* call stands once in the loop body, with no loop around it.
FetchCalls(l) == IF l.fetched THEN 1 ELSE 0

\* C20: a date is reported Failed only after its fetch was tried again, two
\* or three times in all, and a date reported NoData was fetched once.
C20_TransientFailureRetried ==
    (last.op \in {"ingest", "backfill"})
    => /\ (last.outcome = "Failed" => FetchCalls(last) \in 2..3)
       /\ (last.outcome = "NoData" => FetchCalls(last) = 1)

\* The exit status of the ingestion process that has left its loop: main
\* returns after the loop and no script calls sys.exit, so the status is 0
\* unless an uncaught exception ended the process (status 1).
ExitStatus ==
    IF last.outcome \in {"SchemaError", "IOError"} THEN 1 ELSE 0

\* C21: an ingestion run whose final date was reported Failed ends with a
\* non-zero exit status, and a run that wrote a partition for every date it
\* attempted ends with status zero.
C21_ExitStatusReflectsFailures ==
    (run.pc = "done")
    => /\ (last.outcome = "Failed" => ExitStatus >= 1)
       /\ ((\A i \in DOMAIN attempted : daily[attempted[i]].kind = "parquet")
           => ExitStatus = 0)

\* The rows of every daily and yearly partition that can be read.
StoredRows ==
    UNION ({Range(daily[d].rows) : d \in {e \in Dates : daily[e].kind = "parquet"}}
           \cup {Range(yearly[y].rows) :
                   y \in {z \in Years : yearly[z].kind = "parquet"}})

\* C22: in every row of every daily and every yearly partition, unix_time is
\* the floor of the timestamp's UTC instant in seconds: the instant lies in
\* the second that unix_time names.
C22_UnixTimeIsFloorOfTimestamp ==
    \A r \in StoredRows :
        /\ r.unix_time * TicksPerSecond <= EpochTicks(r.timestamp)
        /\ EpochTicks(r.timestamp) < (r.unix_time + 1) * TicksPerSecond

\* C22 witness: a yearly partition holds rows of two daily partitions.
C22_Witness ==
    \E y \in Years :
        /\ yearly[y].kind = "parquet"
        /\ Len(yearly[y].rows) >= 2
        /\ \E d \in Dates : daily[d].kind = "parquet" /\ daily[d].rows # <<>>

(***************************************************************************)
(* convert_to_parquet, column by column.  frame is the DataFrame: its      *)
(* column labels in order, the constant of its symbol column ("": there is *)
(* no such column yet) and the instrument key the CSV was fetched for.     *)
(***************************************************************************)
\* symbols.yaml: instrument key -> the provider's id of the instrument.
SYMBOLS == ("ES" :> "esusd") @@ ("NQ" :> "nqusd")

\* The header of the fetch tool's CSV.
ProviderColumns == <<"timestamp", "open", "high", "low", "close", "volume">>

\* schema_mapping: the columns cast to float64 when present.
NumericColumns == {"open", "high", "low", "close", "volume"}

Keep(s, S) == SelectSeq(s, LAMBDA c : c \in S)

\* The headers pd.read_csv can meet: the timestamp and any of the numeric
\* columns, in the provider's order.
RawHeaders ==
    {Keep(ProviderColumns, {"timestamp"} \cup present) :
        present \in SUBSET NumericColumns}

\* list.index(x), counted from 1.
IndexOf(s, x) == CHOOSE i \in DOMAIN s : s[i] = x

\* list.insert(i, x) with i counted from 1: x comes to stand at place i.
InsertAt(s, i, x) == SubSeq(s, 1, i - 1) \o <<x>> \o SubSeq(s, i, Len(s))

\* Lines 61-64 without the re-ordering of lines 66-69: unix_time stays the
\* last column.
NormalizeColumnsNoReorder(columns) == <<"symbol">> \o Append(columns, "unix_time")

\* Lines 57-69: the casts and the timestamp conversion keep each column in
\* place, unix_time is added as the last column, symbol is inserted at
\* position 0, and unix_time is popped and re-inserted after timestamp.
NormalizeColumns(columns) ==
    LET added    == Append(columns, "unix_time")
        inserted == InsertAt(added, 1, "symbol")
        target   == IndexOf(inserted, "timestamp") + 1
        popped   == RemoveAt(inserted, IndexOf(inserted, "unix_time"))
    IN  InsertAt(popped, target, "unix_time")

\* ingest_symbol line 155: the converter is given symbol_key, while the CSV
\* was fetched and named with SYMBOLS[symbol_key]["id"].
ConvertToParquet ==
    /\ frame.symbol = ""
    /\ frame.instrument \in DOMAIN SYMBOLS
    /\ frame' = [frame EXCEPT !.columns = NormalizeColumns(frame.columns),
                              !.symbol = frame.instrument]
    /\ UNCHANGED <<today, daily, yearly, download, run, attempted, last, cons,
                   index, bucket, local1m>>

InitConvert ==
    /\ today = 1
    /\ daily = EmptyDir
    /\ yearly = [y \in Years |-> NoFile]
    /\ download = [n \in CsvNames |-> NoFile]
    /\ run = Idle
    /\ attempted = <<>>
    /\ last = Log("init", 0, "none", FALSE, -1)
    /\ cons = [p \in Procs |-> NotConsolidating]
    /\ index = Index(0, 0)
    /\ frame \in {[columns |-> h, symbol |-> "", instrument |-> k] :
                    h \in RawHeaders, k \in DOMAIN SYMBOLS}
    /\ bucket = EmptyDir
    /\ local1m = EmptyDir

NextConvert == ConvertToParquet

SpecConvert == InitConvert /\ [][NextConvert]_vars

\* The column order the data contract fixes.
ContractColumns ==
    <<"symbol", "timestamp", "unix_time", "open", "high", "low", "close",
      "volume">>

\* C23: converting a frame leaves its columns in the contract's order, with
\* symbol, timestamp, unix_time and exactly the numeric columns the raw
\* header had (all eight for a full header), and the symbol column holds the
\* instrument's key, which is not the provider's id.
C23_ColumnOrderAndSymbolKey ==
    [][(frame.symbol = "" /\ frame'.symbol # "")
       => /\ frame'.columns =
               Keep(ContractColumns,
                    {"symbol", "timestamp", "unix_time"}
                      \cup (Range(frame.columns) \cap NumericColumns))
          /\ (frame.columns = ProviderColumns
                => frame'.columns = ContractColumns)
          /\ frame'.symbol = frame.instrument
          /\ frame'.symbol # SYMBOLS[frame.instrument]]_vars

\* C23 witness: a frame with the provider's full header has been converted.
C23_Witness ==
    /\ frame.symbol \in DOMAIN SYMBOLS
    /\ frame.columns = ContractColumns

\* C23 witness of the absent column: a converted frame without volume.
C23_WitnessAbsent ==
    /\ frame.symbol \in DOMAIN SYMBOLS
    /\ "volume" \notin Range(frame.columns)
    /\ Len(frame.columns) = 7

(***************************************************************************)
(* Consolidation over stores of every shape its selection tells apart: any *)
(* set of daily partitions, and per year a yearly file that is missing,    *)
(* unreadable, empty, or holds the bars of some dates of the year.         *)
(***************************************************************************)
RECURSIVE RowsOfDates(_)
\* The normalized bars of the dates S, in ascending order.
RowsOfDates(S) ==
    IF S = {} THEN <<>>
    ELSE LET d == Min(S)
         IN  Normalize(<<RawRow(TsOf(d, 0), 1)>>, SymbolKey)
               \o RowsOfDates(S \ {d})

YearlyFilesFor(y) ==
    {NoFile, Truncated}
      \cup {Parquet(RowsOfDates(S)) : S \in SUBSET {d \in Dates : YearOf(d) = y}}

InitSelect ==
    /\ today = MaxDate
    /\ daily \in [Dates -> {NoFile}
                    \cup UNION {{Parquet(Normalize(t, SymbolKey)) : t \in RawTables(d)} :
                                  d \in Dates}]
    /\ \A d \in Dates : daily[d].kind = "parquet"
          => \E t \in RawTables(d) : daily[d] = Parquet(Normalize(t, SymbolKey))
    /\ yearly \in [Years -> UNION {YearlyFilesFor(y) : y \in Years}]
    /\ \A y \in Years : yearly[y] \in YearlyFilesFor(y)
    /\ download = [n \in CsvNames |-> NoFile]
    /\ run = Idle
    /\ attempted = <<>>
    /\ last = Log("init", 0, "none", FALSE, -1)
    /\ cons = [p \in Procs |-> NotConsolidating]
    /\ index = Index(0, 0)
    /\ frame = NoFrame
    /\ bucket = EmptyDir
    /\ local1m = EmptyDir

SpecSelect == InitSelect /\ [][NextStore]_vars

\* The calendar date of the maximum timestamp of year y's partition; 0
\* (null) when the partition is missing, unreadable or empty.
LastConsolidatedDate(y) ==
    IF yearly[y].kind = "parquet" /\ yearly[y].rows # <<>>
    THEN DateOfTs(Max({r.timestamp : r \in Range(yearly[y].rows)}))
    ELSE 0

\* The daily partitions of year y dated strictly after that date, or all of
\* the year's when it is null.
PartitionsToRead(y) ==
    {d \in Dates : /\ YearOf(d) = y
                   /\ daily[d].kind # "NoFile"
                   /\ (LastConsolidatedDate(y) # 0 => d > LastConsolidatedDate(y))}

\* C24: a consolidation of year y reads exactly the daily partitions of y
\* dated strictly after the last consolidated date (all of the year's when
\* that date is null): it reports nothing to do exactly when there is none,
\* what it saves is the partition's rows and the rows of exactly those
\* dailies, and over an unreadable yearly file it fails as soon as the year
\* has any daily partition.
C24_ReadsExactlyNewerPartitions ==
    [][\A y \in Years :
         (last'.op = "consolidate" /\ last'.key = y /\ last' # last)
         => /\ (last'.outcome = "NoNewFiles") <=> (PartitionsToRead(y) = {})
            /\ (last'.outcome = "Saved")
                 => /\ yearly[y].kind \in {"NoFile", "parquet"}
                    /\ Range(yearly'[y].rows) =
                         YearlyRows(y)
                           \cup UNION {Range(daily[d].rows) : d \in PartitionsToRead(y)}
            /\ (last'.outcome = "Error")
                 => /\ yearly[y].kind = "Truncated"
                    /\ yearly' = yearly]_vars

\* C24 witness: a consolidation has saved a year while leaving out a daily
\* partition of that year dated before the last consolidated date.
C24_Witness ==
    /\ last.op = "consolidate" /\ last.outcome = "Saved"
    /\ \E d \in Dates :
          /\ YearOf(d) = last.key
          /\ daily[d].kind = "parquet"
          /\ daily[d].rows # <<>>
          /\ ~(Range(daily[d].rows) \subseteq YearlyRows(last.key))
    /\ Len(yearly[last.key].rows) >= 2

(***************************************************************************)
(* The nightly pipeline: each day the forward ingestion with no --from and *)
(* no --to, and yearly_consolidation.py for the current year.              *)
(***************************************************************************)
NextNightly ==
    \/ Tick
    \/ StartIngest(0, 0)
    \/ IngestDay
    \/ ExitIngest
    \/ YearlyConsolidation

SpecNightly == Init /\ [][NextNightly]_vars

\* C25: when a nightly run reports a date Failed and then writes a later
\* date, the start date the next run without --from computes is no later
\* than the failed date, so that run attempts the date again.
C25_FailedDateIsRetried ==
    [][(/\ run.script = "daily_ingest" /\ run.from_date = 0
        /\ last.op = "ingest" /\ last.outcome = "Failed"
        /\ last'.op = "ingest" /\ last'.outcome = "Written"
        /\ last'.key > last.key)
       => ForwardStart(0)' <= last.key]_vars

\* The last calendar date of a year.
IsLastDayOfYear(d) == YearOf(d + 1) # YearOf(d)

\* C26: whenever the nightly consolidation has just completed, the daily
\* partition of the last day of a year that the nightly consolidation has
\* been consolidating has its rows in the yearly partition of that year,
\* although it was written after the clock moved to the next year.
C26_LastDayOfYearFoldedByNightly ==
    (/\ last.op = "consolidate"
     /\ last.outcome \in {"Saved", "NoNewFiles"})
    => \A d \in Dates :
          (/\ IsLastDayOfYear(d)
           /\ daily[d].kind = "parquet"
           /\ yearly[YearOf(d)].kind = "parquet")
          => Range(daily[d].rows) \subseteq YearlyRows(YearOf(d))

(***************************************************************************)
(* The smart download of the two consolidation scripts, on a runner whose  *)
(* local directories start empty: "mc stat" and "mc cp" of each date of    *)
(* the range from the object store's ohlcv/1s to a local directory.        *)
(***************************************************************************)
FirstDayOf(year) == (year - 1) * YearLen + 1

LastDayOf(year) == year * YearLen

\* Lines 48-64: the dates from the day after the last consolidated date (or
\* from 1 January) to today or 31 December, whichever comes first.
DownloadRange(year) ==
    LET last_consolidated_date == get_last_consolidated_date(yearly[year])
        start_date == IF last_consolidated_date # 0
                      THEN last_consolidated_date + 1
                      ELSE FirstDayOf(year)
        end_date == Min({today, LastDayOf(year)})
    IN  {d \in Dates : start_date <= d /\ d <= end_date}

\* The dates the loop of lines 91-109 copies: those of the range whose file
\* "mc stat" finds and "mc cp" copies (reachable: the dates for which both
\* commands return 0).
CopiedDates(year, reachable) ==
    {d \in DownloadRange(year) : Exists(bucket[d]) /\ d \in reachable}

\* The local directory dir after the copies.
CopyInto(dir, dates) ==
    [d \in Dates |-> IF d \in dates THEN bucket[d] ELSE dir[d]]

\* yearly_consolidation.py --download-only: smart_download_for_symbol, whose
\* dst_dir is ohlcv/1m/symbol=S/date=D (line 94).
YearlyDownloadOnly ==
    /\ run.pc # "done"
    /\ \E reachable \in SUBSET Dates :
         LET dates == CopiedDates(CURRENT_YEAR, reachable) IN
         /\ local1m' = CopyInto(local1m, dates)
         /\ last' = Log("yearly_download", CURRENT_YEAR, "Completed", FALSE,
                        Cardinality(dates))
    /\ UNCHANGED <<today, daily, yearly, download, run, attempted, cons, index,
                   frame, bucket>>

\* yearly_consolidation.py with no mode option (legacy mode, lines 303-312):
\* smart_download_for_symbol, then process_symbol_year, which reads
\* ohlcv/1s (SRC_BASE, line 17) and the yearly file, neither of which the
\* download has written.
YearlyLegacy ==
    /\ run.pc # "done"
    /\ \E reachable \in SUBSET Dates :
         local1m' = CopyInto(local1m, CopiedDates(CURRENT_YEAR, reachable))
    /\ process_symbol_year(CURRENT_YEAR, FALSE)
    /\ UNCHANGED <<today, daily, download, run, attempted, cons, index, frame,
                   bucket>>

\* historical_consolidation_script.py --download-only --year Y:
\* smart_download_for_symbol(symbol, target_year), whose dst_dir is
\* ohlcv/1s/symbol=S/date=D (line 97).
HistoricalDownloadOnly(target_year) ==
    /\ run.pc # "done"
    /\ \E reachable \in SUBSET Dates :
         LET dates == CopiedDates(target_year, reachable) IN
         /\ daily' = CopyInto(daily, dates)
         /\ last' = Log("historical_download", target_year, "Completed", FALSE,
                        Cardinality(dates))
    /\ UNCHANGED <<today, yearly, download, run, attempted, cons, index, frame,
                   bucket, local1m>>

\* The object store holds, for each date from the earliest on, no file, a
\* header-only partition or a partition of one bar.
InitLegacy ==
    /\ today = 1
    /\ daily = EmptyDir
    /\ yearly = [y \in Years |-> NoFile]
    /\ download = [n \in CsvNames |-> NoFile]
    /\ run = Idle
    /\ attempted = <<>>
    /\ last = Log("init", 0, "none", FALSE, -1)
    /\ cons = [p \in Procs |-> NotConsolidating]
    /\ index = Index(0, 0)
    /\ frame = NoFrame
    /\ bucket \in [Dates -> {NoFile}
                     \cup UNION {{Parquet(Normalize(t, SymbolKey)) : t \in RawTables(d)} :
                                   d \in Dates}]
    /\ \A d \in Dates :
          /\ d < EarliestDate => bucket[d] = NoFile
          /\ bucket[d].kind = "parquet"
               => \E t \in RawTables(d) : bucket[d] = Parquet(Normalize(t, SymbolKey))
    /\ local1m = EmptyDir

NextLegacy ==
    \/ Tick
    \/ YearlyDownloadOnly
    \/ YearlyLegacy
    \/ YearlyConsolidation
    \/ \E y \in Years : HistoricalDownloadOnly(y)
    \/ \E y \in Years : HistoricalConsolidation(y)

SpecLegacy == InitLegacy /\ [][NextLegacy]_vars

\* C27: in legacy mode of yearly_consolidation, every daily partition the
\* download step has copied is read by the consolidation step that follows
\* it: the run saves the yearly partition, with the rows of each copied
\* partition in it.
C27_DownloadedPartitionsAreConsolidated ==
    [][\A d \in Dates :
         (/\ last'.op = "consolidate"
          /\ local1m'[d] # local1m[d])
         => /\ last'.outcome = "Saved"
            /\ Range(local1m'[d].rows)
                 \subseteq Range(yearly'[CURRENT_YEAR].rows)]_vars

\* The local stores historical smart_download_for_symbol(symbol, year) can
\* leave behind when run on the current state.
HistoricalDownloadResults(year) ==
    {[daily |-> CopyInto(daily, CopiedDates(year, reachable)),
      local1m |-> local1m, yearly |-> yearly] : reachable \in SUBSET Dates}

\* C29: the smart download of yearly_consolidation leaves the local store
\* (yearly partitions and local daily partitions) in a state that the
\* historical script's smart download for the year CURRENT_YEAR can leave
\* from the same state.
C29_HistoricalSameAsYearly ==
    [][(last'.op = "yearly_download" /\ last' # last)
       => [daily |-> daily', local1m |-> local1m', yearly |-> yearly']
            \in HistoricalDownloadResults(CURRENT_YEAR)]_vars

(***************************************************************************)
(* The ingestion scripts alone.  Each iteration of a loop that has been    *)
(* entered is carried out: the process is not killed and the fetch tool    *)
(* returns.                                                                *)
(***************************************************************************)
NextRuns ==
    \/ Tick
    \/ \E so \in 0..MaxDate, to \in 0..MaxDate : StartIngest(so, to)
    \/ IngestDay
    \/ ExitIngest
    \/ StartBackfill
    \/ BackfillDay

SpecRuns ==
    /\ Init /\ [][NextRuns]_vars
    /\ WF_vars(IngestDay) /\ WF_vars(BackfillDay)

\* The dates of s are in strictly ascending order (so none comes twice).
StrictlyAscending(s) == \A i, j \in DOMAIN s : i < j => s[i] < s[j]

\* C28: the dates an ingestion run has attempted are in strictly ascending
\* order, each at most once and each within the run's gap, and a run that
\* has entered its loop leaves it.
C28_AscendingOnceAndTerminates ==
    /\ [](/\ StrictlyAscending(attempted)
          /\ \A i \in DOMAIN attempted :
                run.start <= attempted[i] /\ attempted[i] <= run.limit)
    /\ (run.pc = "loop") ~> (run.pc = "done")

\* C28 witness: a run has left its loop after attempting two dates.
C28_Witness == run.pc = "done" /\ Len(attempted) >= 2

\* C30: no step takes a row out of a yearly partition that can be read: the
\* partition stays readable, keeps every row it had, and neither its record
\* count nor its last consolidated date decreases.
C30_YearlyOnlyGrows ==
    [][\A y \in Years :
         yearly[y].kind = "parquet"
         => /\ yearly'[y].kind = "parquet"
            /\ Range(yearly[y].rows) \subseteq Range(yearly'[y].rows)
            /\ Len(yearly'[y].rows) >= Len(yearly[y].rows)
            /\ get_last_consolidated_date(yearly'[y])
                 >= get_last_consolidated_date(yearly[y])]_vars

\* C30 witness: a consolidation has saved a yearly partition that holds the
\* rows of a date it had before the run (the date has no daily partition)
\* and the rows of a daily partition the run has added.
C30_Witness ==
    /\ last.op = "consolidate" /\ last.outcome = "Saved"
    /\ \E d1, d2 \in Dates :
          /\ YearOf(d1) = last.key /\ YearOf(d2) = last.key
          /\ d1 < d2
          /\ daily[d1].kind = "NoFile"
          /\ Range(RowsOfDates({d1})) \subseteq YearlyRows(last.key)
          /\ daily[d2].kind = "parquet" /\ daily[d2].rows # <<>>
          /\ Range(daily[d2].rows) \subseteq YearlyRows(last.key)

\* C31: at any one date of the clock, no year can be written by both
\* scripts: every year the historical script consolidates is at most the
\* year before the current one, so none is the current year, and every
\* write of a yearly partition is to the current year or to one of the
\* historical years.
C31_ScriptsWriteDisjointYears ==
    /\ [](\A y \in get_historical_years :
            y <= PREVIOUS_YEAR /\ y # CURRENT_YEAR)
    /\ [][\A y \in Years :
            yearly'[y] # yearly[y]
            => \/ y = CURRENT_YEAR /\ y \notin get_historical_years
               \/ y \in get_historical_years /\ y # CURRENT_YEAR]_vars

\* C31 witness: the historical script has just saved an earlier year while
\* the current year has daily partitions for yearly_consolidation to fold.
C31_Witness ==
    /\ last.op = "consolidate" /\ last.outcome = "Saved"
    /\ last.key <= PREVIOUS_YEAR
    /\ last.key \in get_historical_years
    /\ SelectedDaily(CURRENT_YEAR) # {}

====
